---- MODULE Spec2Model ----
(***************************************************************************)
(* A model of imklog, the kernel log input module                          *)
(* (plugins/imklog/imklog.c): the legacy/v2 configuration merge, the PRI   *)
(* extraction done by Syslog/parsePRI, record submission, and the module   *)
(* entry points that the daemon calls.                                     *)
(*                                                                         *)
(* Memory is modelled as follows.  A message buffer is a sequence of       *)
(* bytes (one-character strings, NUL for the terminator); a C pointer into *)
(* the buffer is a 0-based offset.  The module configuration object that   *)
(* the framework allocates per load cycle is the record modConf (NoObj     *)
(* when no object is allocated); loadModConf and runModConf are pointers   *)
(* that are either NULL or point to that object.                           *)
(***************************************************************************)
EXTENDS Integers, Sequences, FiniteSets, TLC

VARIABLES
    cs,                             \* static configSettings_t cs (legacy accumulator)
    bLegacyCnfModGlobalsPermitted,  \* are legacy module-global directives permitted?
    modConf,                        \* the modConfData_t object of the cycle, or NoObj
    loadModConf,                    \* NULL or PTR (points to modConf)
    runModConf,                     \* NULL or PTR (points to modConf)
    pInputName,                     \* interned "imklog" property or NULL
    pLocalHostIP,                   \* interned "127.0.0.1" property or NULL
    phase,                          \* where the daemon is in the module lifecycle
    iRet,                           \* return code of the entry point called last
    klogOpen,                       \* driver resources set up (klogWillRun .. klogAfterRun)
    willRunCalls,                   \* history: calls of klogWillRun since the load cycle began
    bShallStop,                     \* pThrd->bShallStop
    pc,                             \* position of the input thread in runInput
    curMsg,                         \* arguments of the latest Syslog call, or NoMsg
    resolved,                       \* priority and pMsg of that call at finalize_it
    submitted,                      \* record handed to submitMsg by that call, or NoRecord
    syslogRet,                      \* return code of that Syslog call
    legacySet,                      \* history: fields written by a legacy directive this cycle
    v2Set,                          \* history: fields written by a v2 parameter this cycle
    resetIsLast,                    \* history: the last directive of the cycle was resetconfigvariables
    parseIn,                        \* arguments of a parsePRI call examined on its own, or NoParse
    parseOut                        \* what that call returned and stored, or NoResult

vars == << cs, bLegacyCnfModGlobalsPermitted, modConf, loadModConf, runModConf,
           pInputName, pLocalHostIP, phase, iRet, klogOpen, willRunCalls, bShallStop, pc,
           curMsg, resolved, submitted, syslogRet, legacySet, v2Set, resetIsLast,
           parseIn, parseOut >>

cfgVars == << cs, bLegacyCnfModGlobalsPermitted, modConf, loadModConf,
              legacySet, v2Set, resetIsLast >>
thrdVars == << bShallStop, pc >>
ingestVars == << curMsg, resolved, submitted, syslogRet >>
propVars == << pInputName, pLocalHostIP >>
parseVars == << parseIn, parseOut >>

(***************************************************************************)
(* Return codes and pointers.                                              *)
(***************************************************************************)
RS_RET_OK == "RS_RET_OK"
RS_RET_INVALID_PRI == "RS_RET_INVALID_PRI"
RS_RET_MISSING_CNFPARAMS == "RS_RET_MISSING_CNFPARAMS"
RS_RET_PARAM_NOT_PERMITTED == "RS_RET_PARAM_NOT_PERMITTED"
RS_RET_OUT_OF_MEMORY == "RS_RET_OUT_OF_MEMORY"
RS_RET_ERR == "RS_RET_ERR"

NULL == "NULL"
PTR == "PTR"
NoObj == [allocated |-> FALSE]
NoMsg == [called |-> FALSE]
NoRecord == [constructed |-> FALSE]
NoLocals == [priority |-> -1, pMsg |-> 0]
NoParse == [called |-> FALSE]
NoResult == [returned |-> FALSE]

(***************************************************************************)
(* Bytes and buffers.                                                      *)
(***************************************************************************)
NUL == "NUL"

Digits == {"0", "1", "2", "3", "4", "5", "6", "7", "8", "9"}

isdigit(c) == c \in Digits

DigitVal(c) ==
    CASE c = "0" -> 0 [] c = "1" -> 1 [] c = "2" -> 2 [] c = "3" -> 3
      [] c = "4" -> 4 [] c = "5" -> 5 [] c = "6" -> 6 [] c = "7" -> 7
      [] c = "8" -> 8 [] c = "9" -> 9

\* the byte at offset i of the memory starting at the buffer
At(buf, i) == buf[i + 1]

RECURSIVE ustrlen(_, _)
\* length of the C string that starts at offset p
ustrlen(buf, p) == IF At(buf, p) = NUL THEN 0 ELSE 1 + ustrlen(buf, p + 1)

\* the C string that starts at offset p, without its terminator
CStr(buf, p) == SubSeq(buf, p + 1, p + ustrlen(buf, p))

(***************************************************************************)
(* parsePRI: "<" digits ">".  The result holds the return code and the     *)
(* values of *piPri and *ppSz after the call.                              *)
(*                                                                         *)
(* The accumulator i is an int.  i * 10 + *pSz++ - '0' adds the character   *)
(* code before it subtracts '0'; when an intermediate result exceeds       *)
(* INT_MAX the behaviour is undefined, and the value that the build leaves *)
(* in i is the outcome ub: the wrapped value, or some other int.           *)
(***************************************************************************)
INT_MAX == 2147483647

INT_MIN == -INT_MAX - 1

\* i * 10 + d reduced to 32 bits in two's complement, by 16-bit halves
WrapMulAdd(i, d) ==
    LET lo == (i % 65536) * 10 + d
        hi == ((i \div 65536) * 10 + lo \div 65536) % 65536
    IN  (IF hi >= 32768 THEN hi - 65536 ELSE hi) * 65536 + (lo % 65536)

\* i * 10 + c - '0' leaves the range of int, c being the digit of value d
Overflows(i, d) ==
    \/ i > (INT_MAX - 48 - d) \div 10
    \/ i < INT_MIN \div 10 + 1

OverflowOutcomes ==
    { [wrap |-> TRUE, val |-> 0], [wrap |-> FALSE, val |-> -1], [wrap |-> FALSE, val |-> 13] }

\* one step of the accumulation
Accumulate(i, c, ub) ==
    IF Overflows(i, DigitVal(c))
    THEN IF ub.wrap THEN WrapMulAdd(i, DigitVal(c)) ELSE ub.val
    ELSE i * 10 + DigitVal(c)

RECURSIVE ParseDigits(_, _, _, _)
\* the while(isdigit(*pSz)) loop: yields << pSz, i >> when it ends
ParseDigits(buf, pSz, i, ub) ==
    IF isdigit(At(buf, pSz))
    THEN ParseDigits(buf, pSz + 1, Accumulate(i, At(buf, pSz), ub), ub)
    ELSE << pSz, i >>

parsePRIEarlyStore(buf, ppSz, piPri, ub) ==
    IF At(buf, ppSz) # "<" \/ ~isdigit(At(buf, ppSz + 1))
    THEN [iRet |-> RS_RET_INVALID_PRI, ppSz |-> ppSz, piPri |-> piPri]
    ELSE LET e == ParseDigits(buf, ppSz + 1, 0, ub)
         IN  IF At(buf, e[1]) # ">"
             THEN [iRet |-> RS_RET_INVALID_PRI, ppSz |-> ppSz, piPri |-> e[2]]
             ELSE [iRet |-> RS_RET_OK, ppSz |-> e[1] + 1, piPri |-> e[2]]

parsePRINoSkip(buf, ppSz, piPri, ub) ==
    IF At(buf, ppSz) # "<" \/ ~isdigit(At(buf, ppSz + 1))
    THEN [iRet |-> RS_RET_INVALID_PRI, ppSz |-> ppSz, piPri |-> piPri]
    ELSE LET e == ParseDigits(buf, ppSz + 1, 0, ub)
         IN  IF At(buf, e[1]) # ">"
             THEN [iRet |-> RS_RET_INVALID_PRI, ppSz |-> ppSz, piPri |-> piPri]
             ELSE [iRet |-> RS_RET_OK, ppSz |-> e[1], piPri |-> e[2]]

parsePRI(buf, ppSz, piPri, ub) ==
    IF At(buf, ppSz) # "<" \/ ~isdigit(At(buf, ppSz + 1))
    THEN [iRet |-> RS_RET_INVALID_PRI, ppSz |-> ppSz, piPri |-> piPri]
    ELSE LET e == ParseDigits(buf, ppSz + 1, 0, ub)
         IN  IF At(buf, e[1]) # ">"
             THEN [iRet |-> RS_RET_INVALID_PRI, ppSz |-> ppSz, piPri |-> piPri]
             ELSE [iRet |-> RS_RET_OK, ppSz |-> e[1] + 1, piPri |-> e[2]]

(***************************************************************************)
(* Priority decoding (PRI = facility * 8 + severity).                      *)
(***************************************************************************)
LOG_KERN == 0
LOG_FAC(p) == p \div 8
LOG_PRI(p) == p % 8

(***************************************************************************)
(* Syslog: resolve the priority and the start of the payload.  The result  *)
(* holds the local variables at the point where the facility filter is     *)
(* evaluated.                                                              *)
(***************************************************************************)
SecondaryOKExclusive(r) == r.iRet = RS_RET_OK /\ r.piPri > 8 /\ r.piPri < 192

SecondaryOK(r) == r.iRet = RS_RET_OK /\ r.piPri >= 8 /\ r.piPri <= 192

ResolvePRI(priority, buf, ub) ==
    LET cand == At(buf, 3) = "<" \/ (At(buf, 3) = " " /\ At(buf, 4) = "<")
        pMsgTmp == IF At(buf, 3) = "<" THEN 3 ELSE 4
        r1 == IF cand THEN parsePRI(buf, pMsgTmp, -1, ub)
                      ELSE [iRet |-> RS_RET_INVALID_PRI, ppSz |-> 0, piPri |-> -1]
        second == cand /\ SecondaryOK(r1)
        pri == r1.piPri
        pMsg1 == IF second THEN r1.ppSz ELSE 0
        priority1 == IF second THEN pri ELSE priority
        r2 == IF pri = -1 THEN parsePRI(buf, pMsg1, priority1, ub)
                          ELSE [iRet |-> RS_RET_OK, ppSz |-> pMsg1, piPri |-> priority1]
    IN  [priority |-> r2.piPri, pMsg |-> r2.ppSz]

(***************************************************************************)
(* enqMsg: construct the record and hand it to the main queue.  out is the *)
(* outcome of the two calls that can fail: "ok", "construct" (msgConstruct *)
(* fails) or "submit" (submitMsg fails).  The result holds the return code *)
(* and the record given to submitMsg, NoRecord if none was.                *)
(***************************************************************************)
EnqOutcomes == {"ok", "construct", "submit"}

enqMsg(msg, pszTag, iFacility, iSeverity, tp, out) ==
    IF out = "construct"
    THEN [iRet |-> RS_RET_OUT_OF_MEMORY, rec |-> NoRecord]
    ELSE [iRet |-> IF out = "submit" THEN RS_RET_ERR ELSE RS_RET_OK,
          rec  |-> [msg |-> msg, offMSG |-> 0, tag |-> pszTag,
                    iFacility |-> iFacility, iSeverity |-> iSeverity,
                    time |-> tp, flowCtl |-> "eFLOWCTL_LIGHT_DELAY",
                    inputName |-> pInputName, rcvFromIP |-> pLocalHostIP]]

\* the offsets of pMsg that the test for a secondary PRI reads: pMsg[3], and
\* pMsg[4] when pMsg[3] is a space
ProbeReads(buf) == IF At(buf, 3) = " " THEN {3, 4} ELSE {3}

Syslog(priority, buf, tp, out, ub) ==
    LET r == ResolvePRI(priority, buf, ub)
        e == IF cs.bPermitNonKernel = 0 /\ LOG_FAC(r.priority) # LOG_KERN
             THEN [iRet |-> RS_RET_OK, rec |-> NoRecord]
             ELSE enqMsg(CStr(buf, r.pMsg), "kernel:", LOG_FAC(r.priority),
                         LOG_PRI(r.priority), tp, out)
    IN  [iRet |-> e.iRet, rec |-> e.rec, locals |-> r]

(***************************************************************************)
(* Configuration values.                                                   *)
(***************************************************************************)
\* what the driver's klogFacilIntMsg() returns (LOG_SYSLOG)
klogFacilIntMsg == 40

Fields == {"bPermitNonKernel", "bParseKernelStamp", "bKeepKernelStamp",
           "iFacilIntMsg", "pszPath", "console_log_level"}

\* the values that initConfigSettings stores into cs
initConfigSettings ==
    [bPermitNonKernel |-> 0, bParseKernelStamp |-> 0, bKeepKernelStamp |-> 0,
     console_log_level |-> -1, pszPath |-> NULL, iFacilIntMsg |-> klogFacilIntMsg]

\* the documented default of every field of the effective configuration
DefaultOf ==
    [bPermitNonKernel |-> 0, bParseKernelStamp |-> 0, bKeepKernelStamp |-> 0,
     console_log_level |-> -1, pszPath |-> NULL, iFacilIntMsg |-> klogFacilIntMsg]

\* arguments of the legacy directives
LegacyPaths == {"", "p"}
LegacyBinary == {1}
LegacyLevels == {3}
LegacyFacilities == {8}

\* parameter values of the module(...) statement
V2Paths == {"q"}
V2Binary == {0, 1}
V2Levels == {5}
V2Facilities == {128}
\* one struct cnfparamvals: bUsed and the value (meaningless when not used)
ParamVals(vals, dflt) == {[bUsed |-> 1, val |-> v] : v \in vals} \cup {[bUsed |-> 0, val |-> dflt]}
ParamLists ==
    [logpath : ParamVals(V2Paths, ""),
     permitnonkernelfacility : ParamVals(V2Binary, 0),
     consoleloglevel : ParamVals(V2Levels, 0),
     internalmsgfacility : ParamVals(V2Facilities, 0)]

(***************************************************************************)
(* Lifecycle as driven by the daemon.                                      *)
(***************************************************************************)
Phases == {"Unloaded", "Idle", "ConfigLoading", "ConfigLoaded", "Activating",
           "ActivationFailed", "Activated", "ReadyToRun", "Running", "Stopping",
           "Exited"}

ConfigWritableWhileRunning == phase \in {"ConfigLoading", "Running"}

\* the daemon processes directives and module blocks, and ends the load,
\* only while the configuration is being loaded
ConfigWritable == phase = "ConfigLoading"

Init ==
    /\ cs = initConfigSettings
    /\ bLegacyCnfModGlobalsPermitted = 0
    /\ modConf = NoObj
    /\ loadModConf = NULL
    /\ runModConf = NULL
    /\ pInputName = NULL
    /\ pLocalHostIP = NULL
    /\ phase = "Unloaded"
    /\ iRet = RS_RET_OK
    /\ klogOpen = FALSE
    /\ willRunCalls = 0
    /\ bShallStop = FALSE
    /\ pc = "none"
    /\ curMsg = NoMsg
    /\ resolved = NoLocals
    /\ submitted = NoRecord
    /\ syslogRet = RS_RET_OK
    /\ legacySet = {}
    /\ v2Set = {}
    /\ resetIsLast = FALSE
    /\ parseIn = NoParse
    /\ parseOut = NoResult

modInit ==
    /\ phase = "Unloaded"
    /\ pInputName' = "imklog"
    /\ pLocalHostIP' = "127.0.0.1"
    /\ cs' = initConfigSettings
    /\ iRet' = RS_RET_OK
    /\ phase' = "Idle"
    /\ UNCHANGED << bLegacyCnfModGlobalsPermitted, modConf, loadModConf, runModConf,
                    klogOpen, willRunCalls, legacySet, v2Set, resetIsLast >>
    /\ UNCHANGED << thrdVars, ingestVars >>
    /\ UNCHANGED parseVars

beginCnfLoadKeepsLegacy ==
    /\ phase = "Idle"
    /\ loadModConf' = PTR
    /\ willRunCalls' = 0
    /\ modConf' = [pszPath |-> NULL, bPermitNonKernel |-> 0, bParseKernelStamp |-> 0,
                   bKeepKernelStamp |-> 0, console_log_level |-> -1,
                   iFacilIntMsg |-> klogFacilIntMsg, configSetViaV2Method |-> 0]
    /\ bLegacyCnfModGlobalsPermitted' = 1
    /\ iRet' = RS_RET_OK
    /\ phase' = "ConfigLoading"
    /\ legacySet' = {}
    /\ v2Set' = {}
    /\ resetIsLast' = FALSE
    /\ UNCHANGED << cs, runModConf, klogOpen >>
    /\ UNCHANGED << thrdVars, ingestVars, propVars >>
    /\ UNCHANGED parseVars

beginCnfLoad ==
    /\ phase = "Idle"
    /\ loadModConf' = PTR
    /\ willRunCalls' = 0
    /\ modConf' = [pszPath |-> NULL, bPermitNonKernel |-> 0, bParseKernelStamp |-> 0,
                   bKeepKernelStamp |-> 0, console_log_level |-> -1,
                   iFacilIntMsg |-> klogFacilIntMsg, configSetViaV2Method |-> 0]
    /\ bLegacyCnfModGlobalsPermitted' = 1
    /\ cs' = initConfigSettings
    /\ iRet' = RS_RET_OK
    /\ phase' = "ConfigLoading"
    /\ legacySet' = {}
    /\ v2Set' = {}
    /\ resetIsLast' = FALSE
    /\ UNCHANGED << runModConf, klogOpen >>
    /\ UNCHANGED << thrdVars, ingestVars, propVars >>
    /\ UNCHANGED parseVars

\* a legacy directive registered with regCfSysLineHdlr2: it stores its
\* argument into the field of cs unless legacy directives are not permitted
LegacyDirective(field, val) ==
    /\ ConfigWritable
    /\ IF bLegacyCnfModGlobalsPermitted = 1
       THEN /\ cs' = [cs EXCEPT ![field] = val]
            /\ legacySet' = legacySet \cup {field}
            /\ iRet' = RS_RET_OK
       ELSE /\ iRet' = RS_RET_PARAM_NOT_PERMITTED
            /\ UNCHANGED << cs, legacySet >>
    /\ resetIsLast' = FALSE
    /\ UNCHANGED << bLegacyCnfModGlobalsPermitted, modConf, loadModConf, runModConf,
                    phase, klogOpen, willRunCalls, v2Set >>
    /\ UNCHANGED << thrdVars, ingestVars, propVars >>
    /\ UNCHANGED parseVars

klogpath == \E v \in LegacyPaths : LegacyDirective("pszPath", v)
klogpermitnonkernelfacility == \E v \in LegacyBinary : LegacyDirective("bPermitNonKernel", v)
klogconsoleloglevel == \E v \in LegacyLevels : LegacyDirective("console_log_level", v)
kloginternalmsgfacility == \E v \in LegacyFacilities : LegacyDirective("iFacilIntMsg", v)
klogparsekerneltimestamp == \E v \in LegacyBinary : LegacyDirective("bParseKernelStamp", v)
klogkeepkerneltimestamp == \E v \in LegacyBinary : LegacyDirective("bKeepKernelStamp", v)

\* the values that the resetconfigvariables handler leaves in cs
resetConfigVariablesCs(c) ==
    [c EXCEPT !.bPermitNonKernel = 0, !.bParseKernelStamp = 0, !.bKeepKernelStamp = 0,
              !.pszPath = NULL, !.iFacilIntMsg = klogFacilIntMsg]

resetConfigVariables ==
    /\ ConfigWritable
    /\ cs' = resetConfigVariablesCs(cs)
    /\ iRet' = RS_RET_OK
    /\ resetIsLast' = TRUE
    /\ UNCHANGED << bLegacyCnfModGlobalsPermitted, modConf, loadModConf, runModConf,
                    phase, klogOpen, willRunCalls, legacySet, v2Set >>
    /\ UNCHANGED << thrdVars, ingestVars, propVars >>
    /\ UNCHANGED parseVars

\* the parameter loop of setModCnf: the object after the used parameters
\* have been stored
ApplyParams(conf, lst) ==
    [conf EXCEPT
       !.pszPath = IF lst.logpath.bUsed = 0 THEN @ ELSE lst.logpath.val,
       !.bPermitNonKernel = IF lst.permitnonkernelfacility.bUsed = 0
                            THEN @ ELSE lst.permitnonkernelfacility.val,
       !.console_log_level = IF lst.consoleloglevel.bUsed = 0
                             THEN @ ELSE lst.consoleloglevel.val,
       !.iFacilIntMsg = IF lst.internalmsgfacility.bUsed = 0
                        THEN @ ELSE lst.internalmsgfacility.val]

UsedFields(lst) ==
    (IF lst.logpath.bUsed = 0 THEN {} ELSE {"pszPath"})
    \cup (IF lst.permitnonkernelfacility.bUsed = 0 THEN {} ELSE {"bPermitNonKernel"})
    \cup (IF lst.consoleloglevel.bUsed = 0 THEN {} ELSE {"console_log_level"})
    \cup (IF lst.internalmsgfacility.bUsed = 0 THEN {} ELSE {"iFacilIntMsg"})

setModCnfRejectMarks ==
    /\ phase = "ConfigLoading"
    /\ loadModConf = PTR
    /\ \/ /\ iRet' = RS_RET_MISSING_CNFPARAMS
          /\ modConf' = [modConf EXCEPT !.configSetViaV2Method = 1]
          /\ bLegacyCnfModGlobalsPermitted' = 0
          /\ UNCHANGED v2Set
       \/ \E lst \in ParamLists :
          /\ modConf' = [ApplyParams(modConf, lst) EXCEPT !.configSetViaV2Method = 1]
          /\ bLegacyCnfModGlobalsPermitted' = 0
          /\ v2Set' = v2Set \cup UsedFields(lst)
          /\ iRet' = RS_RET_OK
    /\ resetIsLast' = FALSE
    /\ UNCHANGED << cs, loadModConf, runModConf, phase, klogOpen, willRunCalls, legacySet >>
    /\ UNCHANGED << thrdVars, ingestVars, propVars >>
    /\ UNCHANGED parseVars

setModCnf ==
    /\ ConfigWritable
    /\ loadModConf = PTR
    /\ \/ \* nvlstGetParams returns NULL
          /\ iRet' = RS_RET_MISSING_CNFPARAMS
          /\ UNCHANGED << modConf, bLegacyCnfModGlobalsPermitted, v2Set >>
       \/ \E lst \in ParamLists :
          /\ modConf' = [ApplyParams(modConf, lst) EXCEPT !.configSetViaV2Method = 1]
          /\ bLegacyCnfModGlobalsPermitted' = 0
          /\ v2Set' = v2Set \cup UsedFields(lst)
          /\ iRet' = RS_RET_OK
    /\ resetIsLast' = FALSE
    /\ UNCHANGED << cs, loadModConf, runModConf, phase, klogOpen, willRunCalls, legacySet >>
    /\ UNCHANGED << thrdVars, ingestVars, propVars >>
    /\ UNCHANGED parseVars

PersistLegacyRawPath(conf, c) ==
    [conf EXCEPT
       !.bPermitNonKernel = c.bPermitNonKernel,
       !.bParseKernelStamp = c.bParseKernelStamp,
       !.bKeepKernelStamp = c.bKeepKernelStamp,
       !.iFacilIntMsg = c.iFacilIntMsg,
       !.console_log_level = c.console_log_level,
       !.pszPath = c.pszPath]

\* the legacy branch of endCnfLoad: the object after cs has been persisted
PersistLegacy(conf, c) ==
    [conf EXCEPT
       !.bPermitNonKernel = c.bPermitNonKernel,
       !.bParseKernelStamp = c.bParseKernelStamp,
       !.bKeepKernelStamp = c.bKeepKernelStamp,
       !.iFacilIntMsg = c.iFacilIntMsg,
       !.console_log_level = c.console_log_level,
       !.pszPath = IF c.pszPath = NULL \/ c.pszPath = "" THEN NULL ELSE c.pszPath]

endCnfLoadConfAlways(conf, c) == PersistLegacy(conf, c)

\* the object that endCnfLoad leaves behind
endCnfLoadConf(conf, c) ==
    IF conf.configSetViaV2Method = 0 THEN PersistLegacy(conf, c) ELSE conf

endCnfLoadCsKeep(conf, c) == c

\* the legacy accumulator that endCnfLoad leaves behind: the path has moved
\* to the object (or was freed)
endCnfLoadCs(conf, c) ==
    IF conf.configSetViaV2Method = 0 THEN [c EXCEPT !.pszPath = NULL] ELSE c

endCnfLoad ==
    /\ ConfigWritable
    /\ loadModConf = PTR
    /\ modConf' = endCnfLoadConf(modConf, cs)
    /\ cs' = endCnfLoadCs(modConf, cs)
    /\ loadModConf' = NULL
    /\ iRet' = RS_RET_OK
    /\ phase' = "ConfigLoaded"
    /\ legacySet' = {}
    /\ v2Set' = {}
    /\ resetIsLast' = FALSE
    /\ UNCHANGED << bLegacyCnfModGlobalsPermitted, runModConf, klogOpen, willRunCalls >>
    /\ UNCHANGED << thrdVars, ingestVars, propVars >>
    /\ UNCHANGED parseVars

activateCnfPrePrivDropRetOK(willRunRet) == RS_RET_OK

\* activateCnfPrePrivDrop returns what the driver's klogWillRun returned
activateCnfPrePrivDropRet(willRunRet) == willRunRet

\* the daemon runs the input only if activation succeeded
AfterActivation(ret) == IF ret = RS_RET_OK THEN "Activating" ELSE "ActivationFailed"

activateCnfPrePrivDrop ==
    /\ phase = "ConfigLoaded"
    /\ runModConf' = PTR
    /\ \E willRunRet \in {RS_RET_OK, RS_RET_ERR} :
         /\ klogOpen' = (willRunRet = RS_RET_OK)
         /\ willRunCalls' = willRunCalls + 1
         /\ iRet' = activateCnfPrePrivDropRet(willRunRet)
    /\ phase' = AfterActivation(iRet')
    /\ UNCHANGED cfgVars
    /\ UNCHANGED << thrdVars, ingestVars, propVars >>
    /\ UNCHANGED parseVars

activateCnfSetsUp ==
    /\ phase = "Activating"
    /\ phase' = "Activated"
    /\ klogOpen' = TRUE
    /\ willRunCalls' = willRunCalls + 1
    /\ iRet' = RS_RET_OK
    /\ UNCHANGED cfgVars
    /\ UNCHANGED runModConf
    /\ UNCHANGED << thrdVars, ingestVars, propVars >>
    /\ UNCHANGED parseVars

\* activateCnf has no module code
activateCnf ==
    /\ phase = "Activating"
    /\ phase' = "Activated"
    /\ iRet' = RS_RET_OK
    /\ UNCHANGED cfgVars
    /\ UNCHANGED << runModConf, klogOpen, willRunCalls >>
    /\ UNCHANGED << thrdVars, ingestVars, propVars >>
    /\ UNCHANGED parseVars

\* willRun has no module code
willRun ==
    /\ phase = "Activated"
    /\ phase' = "ReadyToRun"
    /\ iRet' = RS_RET_OK
    /\ UNCHANGED cfgVars
    /\ UNCHANGED << runModConf, klogOpen, willRunCalls >>
    /\ UNCHANGED << thrdVars, ingestVars, propVars >>
    /\ UNCHANGED parseVars

\* the daemon creates the input thread, which enters runInput
StartThread ==
    /\ phase = "ReadyToRun"
    /\ phase' = "Running"
    /\ bShallStop' = FALSE
    /\ pc' = "test"
    /\ UNCHANGED cfgVars
    /\ UNCHANGED << runModConf, iRet, klogOpen, willRunCalls >>
    /\ UNCHANGED << ingestVars, propVars >>
    /\ UNCHANGED parseVars

\* the daemon asks the input thread to stop
SetStop ==
    /\ phase = "Running"
    /\ bShallStop = FALSE
    /\ bShallStop' = TRUE
    /\ UNCHANGED cfgVars
    /\ UNCHANGED << runModConf, phase, iRet, klogOpen, willRunCalls, pc >>
    /\ UNCHANGED << ingestVars, propVars >>
    /\ UNCHANGED parseVars

LoopTestOnce(stop) == "read"

\* the loop condition of runInput
LoopTest(stop) == IF stop THEN "done" ELSE "read"

\* CHKiRet around klogLogKMsg
LoopAfter(ret) == IF ret = RS_RET_OK THEN "test" ELSE "done"

runInput ==
    /\ pc = "test"
    /\ pc' = LoopTest(bShallStop)
    /\ UNCHANGED cfgVars
    /\ UNCHANGED << runModConf, phase, iRet, klogOpen, willRunCalls, bShallStop >>
    /\ UNCHANGED << ingestVars, propVars >>
    /\ UNCHANGED parseVars

klogLogKMsgRetSyslog(sysRet) == sysRet

\* what the driver returns from klogLogKMsg after it has passed a line to
\* Syslog, whose return code is sysRet
klogLogKMsgRet(sysRet) == RS_RET_OK

\* the driver obtains one kernel message and passes it to Syslog
klogLogKMsgOn(inputs) ==
    /\ pc = "read"
    /\ \E in \in inputs, out \in EnqOutcomes :
         LET r == Syslog(in.priority, in.buf, in.tp, out, in.ub)
         IN  /\ curMsg' = in
             /\ resolved' = r.locals
             /\ submitted' = r.rec
             /\ syslogRet' = r.iRet
             /\ pc' = LoopAfter(klogLogKMsgRet(r.iRet))
    /\ UNCHANGED cfgVars
    /\ UNCHANGED << runModConf, phase, iRet, klogOpen, willRunCalls, bShallStop >>
    /\ UNCHANGED propVars
    /\ UNCHANGED parseVars

\* the driver fails to obtain a message and reports the error
klogLogKMsgFail ==
    /\ pc = "read"
    /\ curMsg' = NoMsg
    /\ resolved' = NoLocals
    /\ submitted' = NoRecord
    /\ syslogRet' = RS_RET_OK
    /\ pc' = LoopAfter(RS_RET_ERR)
    /\ UNCHANGED cfgVars
    /\ UNCHANGED << runModConf, phase, iRet, klogOpen, willRunCalls, bShallStop >>
    /\ UNCHANGED propVars
    /\ UNCHANGED parseVars

afterRunReleasing ==
    /\ phase = "Running"
    /\ pc = "done"
    /\ klogOpen' = FALSE
    /\ UNCHANGED willRunCalls
    /\ iRet' = RS_RET_OK
    /\ phase' = "Stopping"
    /\ pc' = "none"
    /\ curMsg' = NoMsg
    /\ resolved' = NoLocals
    /\ submitted' = NoRecord
    /\ syslogRet' = RS_RET_OK
    /\ pInputName' = NULL
    /\ pLocalHostIP' = NULL
    /\ UNCHANGED cfgVars
    /\ UNCHANGED << runModConf, bShallStop >>
    /\ UNCHANGED parseVars

\* the input thread has ended (its latest Syslog call is forgotten) and the
\* driver is torn down
afterRun ==
    /\ phase = "Running"
    /\ pc = "done"
    /\ klogOpen' = FALSE
    /\ UNCHANGED willRunCalls
    /\ iRet' = RS_RET_OK
    /\ phase' = "Stopping"
    /\ pc' = "none"
    /\ curMsg' = NoMsg
    /\ resolved' = NoLocals
    /\ submitted' = NoRecord
    /\ syslogRet' = RS_RET_OK
    /\ UNCHANGED cfgVars
    /\ UNCHANGED << runModConf, bShallStop >>
    /\ UNCHANGED propVars
    /\ UNCHANGED parseVars

\* freeCnf has no module code; the framework frees the object
freeCnf ==
    /\ phase \in {"Stopping", "ActivationFailed"}
    /\ modConf' = NoObj
    /\ iRet' = RS_RET_OK
    /\ phase' = "Idle"
    /\ UNCHANGED << cs, bLegacyCnfModGlobalsPermitted, loadModConf, runModConf,
                    klogOpen, willRunCalls, legacySet, v2Set, resetIsLast >>
    /\ UNCHANGED << thrdVars, ingestVars, propVars >>
    /\ UNCHANGED parseVars

modExit ==
    /\ phase = "Idle"
    /\ pInputName' = NULL
    /\ pLocalHostIP' = NULL
    /\ iRet' = RS_RET_OK
    /\ phase' = "Exited"
    /\ UNCHANGED cfgVars
    /\ UNCHANGED << runModConf, klogOpen, willRunCalls >>
    /\ UNCHANGED << thrdVars, ingestVars >>
    /\ UNCHANGED parseVars

(***************************************************************************)
(* Kernel messages.  The driver passes a NUL-terminated line in a buffer;  *)
(* what follows the terminator is whatever the buffer held before.         *)
(***************************************************************************)
Buf(line, tail) == line \o << NUL >> \o tail

DigitChar(d) ==
    CASE d = 0 -> "0" [] d = 1 -> "1" [] d = 2 -> "2" [] d = 3 -> "3"
      [] d = 4 -> "4" [] d = 5 -> "5" [] d = 6 -> "6" [] d = 7 -> "7"
      [] d = 8 -> "8" [] d = 9 -> "9"

RECURSIVE Dec(_)
\* the decimal digits of n
Dec(n) == IF n < 10 THEN << DigitChar(n) >> ELSE Dec(n \div 10) \o << DigitChar(n % 10) >>

\* the text "<n>"
PRI(n) == << "<" >> \o Dec(n) \o << ">" >>

LOG_INFO == 6

\* the outcome of an overflow for the messages whose digit runs are too
\* short to overflow
NoOverflow == [wrap |-> TRUE, val |-> 0]

\* the messages the driver delivers in the lifecycle specification
DriverInputs ==
    { [priority |-> LOG_INFO, tp |-> NULL, ub |-> NoOverflow,
       buf |-> Buf(PRI(5) \o << "k" >>, << >>)],
      [priority |-> LOG_INFO, tp |-> "tv", ub |-> NoOverflow,
       buf |-> Buf(PRI(13) \o << "u" >>, << >>)],
      [priority |-> LOG_INFO, tp |-> NULL, ub |-> NoOverflow,
       buf |-> Buf(PRI(6) \o PRI(30) \o << "d" >>, << >>)],
      [priority |-> 14, tp |-> NULL, ub |-> NoOverflow,
       buf |-> Buf(<< "b", "o", "o", "t" >>, << >>)] }

klogLogKMsg == klogLogKMsgOn(DriverInputs)

Next ==
    \/ modInit
    \/ beginCnfLoad
    \/ klogpath
    \/ klogpermitnonkernelfacility
    \/ klogconsoleloglevel
    \/ kloginternalmsgfacility
    \/ klogparsekerneltimestamp
    \/ klogkeepkerneltimestamp
    \/ resetConfigVariables
    \/ setModCnf
    \/ endCnfLoad
    \/ activateCnfPrePrivDrop
    \/ activateCnf
    \/ willRun
    \/ StartThread
    \/ SetStop
    \/ runInput
    \/ klogLogKMsg
    \/ klogLogKMsgFail
    \/ afterRun
    \/ freeCnf
    \/ modExit

Spec == Init /\ [][Next]_vars


(***************************************************************************)
(* Syslog on its own: the input thread of a running module is given        *)
(* messages of every shape.  A line shorter than three bytes is followed   *)
(* in the buffer by bytes the model chooses freely.                        *)
(***************************************************************************)
MaxInner == 193

InnerVals == {0, 5, 7, 8, 30, 191, 192} \cup (193..MaxInner)

Outers == { << >>, << "<" >>, << "<", "6" >>, PRI(6), PRI(13),
            << "x", "x", "x" >>, << "<", "6", "x" >> }
Seps == { << >>, << " " >> }
Inners == { PRI(n) : n \in InnerVals }
          \cup { << >>, << "<" >>, << "<", "x", ">" >>, << "<", "9" >>,
                 << "<", "0", "9", ">" >> }
Rests == { << >>, << "k" >>, << " ", "<", "8", ">" >> }

\* "xxx<13>boot ok" and "<5>kernel panic"
BootLine == << "x", "x", "x" >> \o PRI(13) \o << "b", "o", "o", "t", " ", "o", "k" >>
PanicLine == PRI(5) \o << "k", "e", "r", "n", "e", "l", " ", "p", "a", "n", "i", "c" >>

Lines == { o \o sp \o i \o r : o \in Outers, sp \in Seps, i \in Inners, r \in Rests }
         \cup { BootLine, PanicLine }

\* stale bytes from offset 3 on
Stale == { << NUL, NUL >>, << "x", NUL >>, << " ", NUL >>,
           << "<", "9", ">", "g", NUL >>, << " ", "<", "9", ">", NUL >>,
           << "<", "5", ">", NUL >> }

\* the bytes between the terminator and offset 3 are never read
Tails(line) ==
    IF Len(line) >= 3 THEN { << >> }
    ELSE { [k \in 1..(2 - Len(line)) |-> "x"] \o g : g \in Stale }

Buffers == UNION { { Buf(l, t) : t \in Tails(l) } : l \in Lines }

AllInputs ==
    { [priority |-> p, tp |-> t, ub |-> NoOverflow, buf |-> b] :
        p \in {LOG_INFO, 14}, t \in {NULL, "tv"}, b \in Buffers }

\* a module that is running: loaded, activated, the input thread in its loop
RunningState ==
    /\ \E c \in {0, 1}, m \in {0, 1} :
         /\ cs = [initConfigSettings EXCEPT !.bPermitNonKernel = c]
         /\ modConf = [pszPath |-> NULL, bPermitNonKernel |-> m, bParseKernelStamp |-> 0,
                       bKeepKernelStamp |-> 0, console_log_level |-> -1,
                       iFacilIntMsg |-> klogFacilIntMsg,
                       configSetViaV2Method |-> IF c = m THEN 0 ELSE 1]
         /\ bLegacyCnfModGlobalsPermitted = (IF c = m THEN 1 ELSE 0)
    /\ loadModConf = NULL
    /\ runModConf = PTR
    /\ pInputName = "imklog"
    /\ pLocalHostIP = "127.0.0.1"
    /\ phase = "Running"
    /\ iRet = RS_RET_OK
    /\ klogOpen = TRUE
    /\ willRunCalls = 1
    /\ bShallStop = FALSE
    /\ pc = "read"
    /\ curMsg = NoMsg
    /\ resolved = NoLocals
    /\ submitted = NoRecord
    /\ syslogRet = RS_RET_OK
    /\ legacySet = {}
    /\ v2Set = {}
    /\ resetIsLast = FALSE

InitRunning ==
    /\ RunningState
    /\ parseIn = NoParse
    /\ parseOut = NoResult

klogLogKMsgAny == klogLogKMsgOn(AllInputs)

\* one call of Syslog per behaviour
NextSyslog == klogLogKMsgAny

SpecSyslog == InitRunning /\ [][NextSyslog]_vars

(***************************************************************************)
(* One run cycle: the input thread of a running module, the daemon's stop  *)
(* request and the end of the cycle.  The input thread is scheduled, and a *)
(* driver read returns.                                                    *)
(***************************************************************************)
NextRun ==
    \/ SetStop
    \/ runInput
    \/ klogLogKMsg
    \/ klogLogKMsgFail
    \/ afterRun

SpecRun == InitRunning /\ [][NextRun]_vars /\ WF_vars(runInput) /\ WF_vars(klogLogKMsg)

(***************************************************************************)
(* parsePRI on its own: one call, made by the running input thread, with   *)
(* a cursor into a buffer and the caller's priority variable.              *)
(***************************************************************************)
DigitsOf(ns) == [k \in 1..Len(ns) |-> DigitChar(ns[k])]

\* digit runs around INT_MAX, with leading zeros, and beyond ten digits
LongRuns ==
    { DigitsOf(<< 2, 1, 4, 7, 4, 8, 3, 6, 4, 8 >>),
      DigitsOf(<< 2, 1, 4, 7, 4, 8, 3, 6, 0, 0 >>),
      DigitsOf(<< 2, 1, 4, 7, 4, 8, 3, 5, 9, 9 >>),
      DigitsOf(<< 0, 0, 0, 0, 0, 0, 0, 0, 0, 0, 1, 3 >>),
      DigitsOf(<< 9, 9, 9, 9, 9, 9, 9, 9, 9, 9, 9 >>) }

LongBuffers ==
    { Buf(<< "<" >> \o ds \o close \o << "k" >>, << >>) :
        ds \in LongRuns, close \in { << ">" >>, << >> } }

ParseInputs ==
    { [called |-> TRUE, buf |-> b, ppSz |-> o, piPri |-> p, ub |-> NoOverflow] :
        b \in Buffers, o \in {0, 3, 4}, p \in {-1, LOG_INFO} }
    \cup { [called |-> TRUE, buf |-> b, ppSz |-> 0, piPri |-> p, ub |-> u] :
              b \in LongBuffers, p \in {-1, LOG_INFO}, u \in OverflowOutcomes }

InitParse ==
    /\ RunningState
    /\ parseIn \in { in \in ParseInputs : in.ppSz < Len(in.buf) }
    /\ parseOut = NoResult

parsePRICall ==
    /\ parseIn # NoParse
    /\ parseOut = NoResult
    /\ parseOut' = parsePRI(parseIn.buf, parseIn.ppSz, parseIn.piPri, parseIn.ub)
    /\ UNCHANGED parseIn
    /\ UNCHANGED cfgVars
    /\ UNCHANGED << runModConf, phase, iRet, klogOpen, willRunCalls >>
    /\ UNCHANGED << thrdVars, ingestVars, propVars >>

NextParse == parsePRICall

SpecParse == InitParse /\ [][NextParse]_vars

(***************************************************************************)
(* The shape of a line, stated on the text and not by way of parsePRI.     *)
(* Offsets are 0-based as in the code, sequence indices 1-based.           *)
(***************************************************************************)
\* the line of a message: the text before the terminator
LineOf(m) == CStr(m.buf, 0)

RECURSIVE NumVal(_)
\* the number that a sequence of digits denotes
NumVal(ds) ==
    IF ds = << >> THEN 0
    ELSE 10 * NumVal(SubSeq(ds, 1, Len(ds) - 1)) + DigitVal(ds[Len(ds)])

\* the indices of a ">" that closes a "<digits" which starts at offset o
PRIEnds(line, o) ==
    { e \in (o + 3)..Len(line) :
        /\ line[o + 1] = "<"
        /\ line[e] = ">"
        /\ \A k \in (o + 2)..(e - 1) : isdigit(line[k]) }

HasPRIAt(line, o) == PRIEnds(line, o) # {}
PRIEndAt(line, o) == CHOOSE e \in PRIEnds(line, o) : TRUE
PRIValAt(line, o) == NumVal(SubSeq(line, o + 2, PRIEndAt(line, o) - 1))

\* bytes 0-2 are "<d>"
OuterPRI(line) ==
    Len(line) >= 3 /\ line[1] = "<" /\ isdigit(line[2]) /\ line[3] = ">"

\* the offset where a secondary PRI may start: 3, or 4 after a space; -1 if none
InnerOffset(line) ==
    IF Len(line) >= 4 /\ line[4] = "<" THEN 3
    ELSE IF Len(line) >= 5 /\ line[4] = " " /\ line[5] = "<" THEN 4
    ELSE -1

\* a secondary PRI with a value in [8,192]
InnerInBand(line) ==
    /\ InnerOffset(line) # -1
    /\ HasPRIAt(line, InnerOffset(line))
    /\ PRIValAt(line, InnerOffset(line)) >= 8
    /\ PRIValAt(line, InnerOffset(line)) <= 192

Called == curMsg # NoMsg

(***************************************************************************)
(* C1: for a line that starts with an outer PRI "<d>" and carries at       *)
(* offset 3 (or 4 after a space) an inner PRI with a value in [8,192],     *)
(* Syslog resolves the priority to the inner value, and the payload starts *)
(* right after the inner ">" (the record, if one is built, carries that    *)
(* text and the facility and severity of the inner value).                 *)
(***************************************************************************)
DualPRIResolved ==
    Called =>
      LET line == LineOf(curMsg)
      IN  (OuterPRI(line) /\ InnerInBand(line)) =>
            LET o == InnerOffset(line)
                e == PRIEndAt(line, o)
                v == PRIValAt(line, o)
            IN  /\ resolved.priority = v
                /\ resolved.pMsg = e
                /\ submitted # NoRecord =>
                     /\ submitted.msg = SubSeq(line, e + 1, Len(line))
                     /\ submitted.iFacility * 8 + submitted.iSeverity = v

DualPRIWitness ==
    /\ Called
    /\ OuterPRI(LineOf(curMsg))
    /\ InnerInBand(LineOf(curMsg))
    /\ InnerOffset(LineOf(curMsg)) = 4
    /\ curMsg.priority = 14
    /\ resolved.priority = 192
    /\ submitted # NoRecord
    /\ submitted.msg = << "k" >>

(***************************************************************************)
(* C2: when there is no inner PRI candidate, or it does not parse, or it   *)
(* parses to a value outside [8,192], and the line starts with a PRI, then *)
(* the resolved priority is the value of that leading PRI and the payload  *)
(* starts after it.                                                        *)
(***************************************************************************)
FallbackToLineStart ==
    Called =>
      LET line == LineOf(curMsg)
      IN  (~InnerInBand(line) /\ HasPRIAt(line, 0)) =>
            /\ resolved.priority = PRIValAt(line, 0)
            /\ resolved.pMsg = PRIEndAt(line, 0)

(***************************************************************************)
(* Steps and states that the configuration claims speak about.             *)
(***************************************************************************)
\* the step taken by config-load-end
LoadEnd == phase = "ConfigLoading" /\ phase' = "ConfigLoaded"

\* the values a v2 parameter can give to a field
V2ValuesOf ==
    [bPermitNonKernel |-> V2Binary, bParseKernelStamp |-> {}, bKeepKernelStamp |-> {},
     console_log_level |-> V2Levels, pszPath |-> V2Paths, iFacilIntMsg |-> V2Facilities]

\* Syslog resolved a facility other than the kernel facility
NonKernelLine == Called /\ resolved.priority \div 8 # 0

\* the call reached the submission (a record was built, or building it failed)
ReachedSubmission == submitted # NoRecord \/ syslogRet # RS_RET_OK

(***************************************************************************)
(* C3: in a run cycle whose effective configuration has                    *)
(* permit_non_kernel_facility = false, a line whose resolved facility is   *)
(* not the kernel facility is never submitted, and Syslog returns success. *)
(***************************************************************************)
FacilityFilter ==
    (phase = "Running" /\ runModConf = PTR /\ modConf.bPermitNonKernel = 0 /\ NonKernelLine)
      => (submitted = NoRecord /\ syslogRet = RS_RET_OK)

(***************************************************************************)
(* C4: after a load cycle resolved via v2 with permitnonkernelfacility =   *)
(* true, every line whose resolved facility is not the kernel facility     *)
(* reaches the submission.                                                 *)
(***************************************************************************)
IngestUsesEffectiveConfig ==
    (phase = "Running" /\ runModConf = PTR /\ modConf.configSetViaV2Method = 1
       /\ modConf.bPermitNonKernel = 1 /\ NonKernelLine)
      => ReachedSubmission

(***************************************************************************)
(* C5: when a v2 block was accepted in the load cycle, the configuration   *)
(* left by config-load-end holds, for every field, the value a v2          *)
(* parameter wrote or else the documented default, whatever the legacy     *)
(* directives of the cycle wrote.                                          *)
(***************************************************************************)
V2Precedence ==
    [][ (LoadEnd /\ modConf.configSetViaV2Method = 1) =>
          \A f \in Fields :
            IF f \in v2Set
            THEN modConf'[f] = modConf[f] /\ modConf'[f] \in V2ValuesOf[f]
            ELSE modConf'[f] = DefaultOf[f] ]_vars

V2PrecedenceWitness ==
    /\ phase = "ConfigLoaded"
    /\ modConf.configSetViaV2Method = 1
    /\ cs.console_log_level = 3
    /\ cs.bPermitNonKernel = 1
    /\ cs.pszPath = "p"
    /\ modConf.console_log_level = -1
    /\ modConf.bPermitNonKernel = 0
    /\ modConf.pszPath = "q"

(***************************************************************************)
(* C6: when no v2 block was accepted, the configuration left by            *)
(* config-load-end equals the legacy accumulator on all six fields, an     *)
(* empty path becoming no path, and a field that no directive of the cycle *)
(* set holds its documented default.                                       *)
(***************************************************************************)
LegacyMerge ==
    [][ (LoadEnd /\ modConf.configSetViaV2Method = 0) =>
          /\ \A f \in Fields \ {"pszPath"} : modConf'[f] = cs[f]
          /\ modConf'.pszPath = (IF cs.pszPath \in {NULL, ""} THEN NULL ELSE cs.pszPath)
          /\ \A f \in Fields \ legacySet : modConf'[f] = DefaultOf[f] ]_vars

LegacyMergeWitness ==
    /\ phase = "ConfigLoaded"
    /\ modConf.configSetViaV2Method = 0
    /\ modConf.console_log_level = 3
    /\ modConf.pszPath = "p"
    /\ modConf.bKeepKernelStamp = 1
    /\ modConf.bParseKernelStamp = 0
    /\ modConf.iFacilIntMsg = 8

(***************************************************************************)
(* C7: after any legacy directives, resetconfigvariables followed directly *)
(* by a legacy config-load-end leaves every field of the configuration at  *)
(* its documented default.                                                 *)
(***************************************************************************)
ResetYieldsDefaults ==
    [][ (LoadEnd /\ resetIsLast /\ modConf.configSetViaV2Method = 0) =>
          \A f \in Fields : modConf'[f] = DefaultOf[f] ]_vars

ActivationFailure ==
    /\ [][ (phase = "ConfigLoaded" /\ phase' # "ConfigLoaded" /\ ~klogOpen')
             => iRet' # RS_RET_OK ]_vars
    /\ [](pc \in {"test", "read"} => klogOpen)

ActivationFailureWitness ==
    /\ phase = "ActivationFailed"
    /\ runModConf = PTR
    /\ ~klogOpen
    /\ iRet = RS_RET_ERR
    /\ pc = "none"

(***************************************************************************)
(* C11: the two interned identities (input name, loopback address) are     *)
(* created by modInit and released by modExit only, over any number of     *)
(* load/run cycles: no other step changes them (afterRun in particular),   *)
(* every record built carries both, and they are live whenever the input   *)
(* thread exists.                                                          *)
(***************************************************************************)
IdentityLifetime ==
    /\ [][ (pInputName' # pInputName \/ pLocalHostIP' # pLocalHostIP) =>
             \/ (phase = "Unloaded" /\ phase' = "Idle")
             \/ /\ phase # "Exited" /\ phase' = "Exited"
                /\ pInputName # NULL /\ pLocalHostIP # NULL
                /\ pInputName' = NULL /\ pLocalHostIP' = NULL ]_vars
    /\ [](submitted # NoRecord =>
            submitted.inputName = "imklog" /\ submitted.rcvFromIP = "127.0.0.1")
    /\ [](pc # "none" => pInputName = "imklog" /\ pLocalHostIP = "127.0.0.1")

IdentityLifetimeWitness ==
    /\ phase = "Exited"
    /\ runModConf = PTR
    /\ pInputName = NULL
    /\ pLocalHostIP = NULL

\* the text that the cursor of the examined parsePRI call points at
ParseText == CStr(parseIn.buf, parseIn.ppSz)

RECURSIVE StripZeros(_)
\* a digit run without its leading zeros
StripZeros(ds) == IF Len(ds) > 1 /\ ds[1] = "0" THEN StripZeros(Tail(ds)) ELSE ds

\* the digits N of a text "<N>rest"
PRIDigitsOf(text) == SubSeq(text, 2, PRIEndAt(text, 0) - 1)

(***************************************************************************)
(* C12: for every text "<N>rest", N being one or more decimal digits of    *)
(* any length, parsePRI succeeds, yields the integer value of N (the       *)
(* decimal digits of the result are those of N without leading zeros) and  *)
(* leaves the cursor at the first byte of rest.                            *)
(***************************************************************************)
ParsePRISuccess ==
    (parseOut # NoResult /\ HasPRIAt(ParseText, 0)) =>
        /\ parseOut.iRet = RS_RET_OK
        /\ parseOut.piPri >= 0
        /\ Dec(parseOut.piPri) = StripZeros(PRIDigitsOf(ParseText))
        /\ parseOut.ppSz = parseIn.ppSz + PRIEndAt(ParseText, 0)

(***************************************************************************)
(* C13: when the text at the cursor does not start with "<", or has no     *)
(* digit after the "<", or its digit run is not closed by ">", parsePRI    *)
(* fails with RS_RET_INVALID_PRI and the caller's cursor and priority      *)
(* variable keep the values they had before the call.                      *)
(***************************************************************************)
ParsePRIFailure ==
    (parseOut # NoResult /\ ~HasPRIAt(ParseText, 0)) =>
        /\ parseOut.iRet = RS_RET_INVALID_PRI
        /\ parseOut.ppSz = parseIn.ppSz
        /\ parseOut.piPri = parseIn.piPri

\* a call on "<6x...", whose digit run is not closed, has failed
ParsePRIFailureWitness ==
    /\ parseOut # NoResult
    /\ Len(ParseText) >= 3
    /\ SubSeq(ParseText, 1, 3) = << "<", "6", "x" >>
    /\ parseIn.piPri = -1
    /\ parseOut.iRet = RS_RET_INVALID_PRI

(***************************************************************************)
(* C14: when the line has no secondary PRI with a value in [8,192] at      *)
(* offset 3 (or 4 after a space) and does not start with a PRI, Syslog     *)
(* keeps the caller's priority, the payload is the whole line, and the     *)
(* call does not report an invalid PRI.                                    *)
(***************************************************************************)
NoEmbeddedPRI ==
    Called =>
      LET line == LineOf(curMsg)
      IN  (~InnerInBand(line) /\ ~HasPRIAt(line, 0)) =>
            /\ resolved.priority = curMsg.priority
            /\ resolved.pMsg = 0
            /\ submitted # NoRecord => submitted.msg = line
            /\ syslogRet # RS_RET_INVALID_PRI

\* a line "<N>text" that has no "<" at offset 3 or 4
SinglePRILine(line) ==
    /\ HasPRIAt(line, 0)
    /\ Len(line) >= 4 => line[4] # "<"
    /\ Len(line) >= 5 => line[5] # "<"

(***************************************************************************)
(* C15: with permit_non_kernel_facility = true in the effective            *)
(* configuration of the run cycle, a line "<N>text" without "<" at offset  *)
(* 3 or 4 reaches the submission, and its record carries facility N div 8, *)
(* severity N mod 8 and the payload text.                                  *)
(***************************************************************************)
SinglePRIEndToEnd ==
    (Called /\ phase = "Running" /\ runModConf = PTR /\ modConf.bPermitNonKernel = 1
       /\ SinglePRILine(LineOf(curMsg))) =>
      LET line == LineOf(curMsg)
          N == PRIValAt(line, 0)
      IN  /\ ReachedSubmission
          /\ submitted # NoRecord =>
                /\ submitted.iFacility = N \div 8
                /\ submitted.iSeverity = N % 8
                /\ submitted.msg = SubSeq(line, PRIEndAt(line, 0) + 1, Len(line))

(***************************************************************************)
(* C16 as claimed: the line "xxx<13>boot ok", processed with the caller's  *)
(* priority 14, keeps priority 14 and the whole line as payload.           *)
(***************************************************************************)
BootLineKeepsDefault ==
    (Called /\ LineOf(curMsg) = BootLine /\ curMsg.priority = 14) =>
        /\ resolved.priority = 14
        /\ resolved.pMsg = 0
        /\ submitted # NoRecord =>
              /\ submitted.msg = BootLine
              /\ submitted.iFacility * 8 + submitted.iSeverity = 14

(***************************************************************************)
(* C16 as amended: the line "xxx<13>boot ok", processed with the caller's  *)
(* priority 14, resolves to the priority 13 found at offset 3, and the     *)
(* payload starts after that PRI: the record carries facility 1, severity  *)
(* 5 and the text "boot ok".                                               *)
(***************************************************************************)
BootLineUsesInnerPRI ==
    (Called /\ LineOf(curMsg) = BootLine /\ curMsg.priority = 14) =>
        /\ resolved.priority = 13
        /\ resolved.pMsg = 7
        /\ submitted # NoRecord =>
              /\ submitted.msg = << "b", "o", "o", "t", " ", "o", "k" >>
              /\ submitted.iFacility = 1
              /\ submitted.iSeverity = 5

BootLineWitness ==
    /\ Called
    /\ LineOf(curMsg) = BootLine
    /\ curMsg.priority = 14
    /\ submitted # NoRecord
    /\ submitted.msg = << "b", "o", "o", "t", " ", "o", "k" >>

\* config-load-end takes the legacy branch
LegacyLoadEnd == LoadEnd /\ modConf.configSetViaV2Method = 0

(***************************************************************************)
(* C17 as claimed: the legacy merge of config-load-end, run once more on   *)
(* the legacy settings as the first run left them, yields the same         *)
(* effective configuration on every field, the path included.              *)
(***************************************************************************)
MergeIdempotent ==
    [][LegacyLoadEnd => endCnfLoadConf(modConf', cs') = modConf']_vars

(***************************************************************************)
(* C17 as amended: run once more on the legacy settings as the first run   *)
(* left them, the legacy merge yields the same effective configuration on  *)
(* every field except the path; the first run moves the path out of the    *)
(* legacy settings, so the second result has no path.                      *)
(***************************************************************************)
MergeIdempotentButPath ==
    [][LegacyLoadEnd =>
         endCnfLoadConf(modConf', cs') = [modConf' EXCEPT !.pszPath = NULL]]_vars

\* a legacy merge has stored a path
MergeIdempotentWitness ==
    /\ phase = "ConfigLoaded"
    /\ modConf.configSetViaV2Method = 0
    /\ modConf.pszPath = "p"
    /\ modConf.bPermitNonKernel = 1
    /\ cs.pszPath = NULL

(***************************************************************************)
(* C18: a step in which set-module-config returns                          *)
(* RS_RET_MISSING_CNFPARAMS leaves the load state as it was: no field of   *)
(* the configuration object is written, the cycle is not marked as set via *)
(* v2, legacy directives stay permitted if they were, and the legacy       *)
(* accumulator and the load pointer keep their values.                     *)
(***************************************************************************)
RejectedV2Block ==
    [][(phase = "ConfigLoading" /\ iRet' = RS_RET_MISSING_CNFPARAMS) =>
         /\ modConf' = modConf
         /\ bLegacyCnfModGlobalsPermitted' = bLegacyCnfModGlobalsPermitted
         /\ UNCHANGED << cs, loadModConf, phase >>]_vars

\* a block was rejected in a cycle that had set a legacy directive and no v2 block
RejectedV2BlockWitness ==
    /\ phase = "ConfigLoading"
    /\ iRet = RS_RET_MISSING_CNFPARAMS
    /\ bLegacyCnfModGlobalsPermitted = 1
    /\ modConf.configSetViaV2Method = 0
    /\ cs.bPermitNonKernel = 1

SetupOrdering ==
    /\ [][willRunCalls' # willRunCalls =>
            \/ phase = "ConfigLoaded" /\ pc = "none" /\ willRunCalls' = willRunCalls + 1
            \/ phase = "Idle" /\ phase' = "ConfigLoading" /\ willRunCalls' = 0]_vars
    /\ [][(~klogOpen /\ klogOpen') => (phase = "ConfigLoaded" /\ pc = "none")]_vars
    /\ [](phase \in {"Activating", "Activated", "ReadyToRun", "Running"} =>
            (klogOpen /\ willRunCalls = 1))
    /\ [](pc # "none" => (klogOpen /\ willRunCalls = 1))
    /\ [][(klogOpen /\ ~klogOpen') =>
            (phase = "Running" /\ pc = "done" /\ phase' = "Stopping" /\ pc' = "none")]_vars

\* a run cycle has ended: set up once, the loop ran, the driver is torn down
SetupOrderingWitness ==
    /\ phase = "Stopping"
    /\ willRunCalls = 1
    /\ ~klogOpen
    /\ bShallStop

\* the step taken by config-load-begin
LoadBegin == phase = "Idle" /\ phase' = "ConfigLoading"

(***************************************************************************)
(* C21: right after config-load-begin, whatever the earlier cycles left    *)
(* behind, every field of the legacy accumulator and of the configuration  *)
(* object holds its documented default, the object is not marked as set    *)
(* via v2, and legacy directives are permitted.                            *)
(***************************************************************************)
FreshLoadCycle ==
    [][LoadBegin =>
         /\ \A f \in Fields : cs'[f] = DefaultOf[f] /\ modConf'[f] = DefaultOf[f]
         /\ modConf'.configSetViaV2Method = 0
         /\ bLegacyCnfModGlobalsPermitted' = 1
         /\ loadModConf' = PTR]_vars

\* a later load cycle has begun: an earlier one was activated
FreshLoadCycleWitness ==
    /\ phase = "ConfigLoading"
    /\ runModConf = PTR
    /\ cs = initConfigSettings
    /\ modConf.configSetViaV2Method = 0
    /\ bLegacyCnfModGlobalsPermitted = 1
    /\ legacySet = {}
    /\ v2Set = {}
    /\ iRet = RS_RET_OK

(***************************************************************************)
(* C22: the probe for a secondary PRI reads no byte past the terminator of *)
(* the line; a line shorter than three bytes is processed as a line        *)
(* without a secondary PRI: it has no PRI at its start either, so the      *)
(* caller's priority is kept and the payload is the whole line.            *)
(***************************************************************************)
BoundedInspection ==
    Called =>
      LET line == LineOf(curMsg)
      IN  /\ \A o \in ProbeReads(curMsg.buf) : o <= Len(line)
          /\ Len(line) < 3 =>
                /\ resolved.priority = curMsg.priority
                /\ resolved.pMsg = 0
                /\ submitted # NoRecord => submitted.msg = line

TypeOK ==
    /\ phase \in Phases
    /\ pc \in {"none", "test", "read", "done"}
    /\ bShallStop \in BOOLEAN
    /\ loadModConf \in {NULL, PTR}
    /\ runModConf \in {NULL, PTR}

====
